---------------------------- MODULE Spec2Model ----------------------------
(***************************************************************************)
(* A model of wyze-bridge.py, the installer/updater of docker-wyze-bridge  *)
(* and mediamtx.                                                           *)
(*                                                                         *)
(* Python strings are modelled as sequences of one-character strings, so   *)
(* that startswith, split, strip, lstrip, `in`, readlines and writelines   *)
(* are computed the way Python computes them.                              *)
(***************************************************************************)
EXTENDS Integers, Sequences, FiniteSets, TLC

VARIABLES
    exit,       \* the process's exit status: "running", "0", "1", "2", or
                \* "traceback" (an uncaught exception ends the interpreter)
    env_file,   \* content of <install_path>/.env, NoFile when it is absent
    calls,      \* the update_env_file calls made so far: key, value, file after
    tar,        \* extract_tarball: the archive, the arguments, the loop position
    extracted,  \* the members tar.extract() wrote: original name, name used
    pc,         \* the statement of __main__ the process is at
    inv,        \* the invocation: action, the parsed flags (args), the caller
    scriptConfig, \* the fields of the _Config object, << >> before _Config()
    settings,   \* the settings files on disk, by path
    events,     \* the side effects of this invocation, in order
    repo,       \* the repository on the hosting API: its releases, newest
                \* first, and the order of the entries of its link headers
    gh,         \* the _Github call in progress: fetch_release_url, get_release
    disk,       \* the files, folders and accounts the installer manages
    start,      \* the disk as the invocation found it
    wb          \* the _WyzeBridgeInstallation object and the locals of
                \* run_install and run_update

(***************************************************************************)
(* Python string primitives                                                *)
(***************************************************************************)

\* str.startswith(p)
StartsWith(s, p) ==
    /\ Len(p) <= Len(s)
    /\ SubSeq(s, 1, Len(p)) = p

\* `sub in s` for strings
Contains(s, sub) ==
    \E i \in 1..(Len(s) - Len(sub) + 1) : SubSeq(s, i, i + Len(sub) - 1) = sub

\* index of the first occurrence of character c in s, 0 when there is none
RECURSIVE FindChar(_, _, _)
FindChar(s, c, i) ==
    IF i > Len(s) THEN 0
    ELSE IF s[i] = c THEN i
    ELSE FindChar(s, c, i + 1)

\* str.split(c, maxsplit) for a one-character separator; maxsplit = -1 is unlimited
RECURSIVE Split(_, _, _)
Split(s, c, maxsplit) ==
    LET i == FindChar(s, c, 1) IN
    IF maxsplit = 0 \/ i = 0 THEN << s >>
    ELSE << SubSeq(s, 1, i - 1) >>
         \o Split(SubSeq(s, i + 1, Len(s)), c,
                  IF maxsplit < 0 THEN maxsplit ELSE maxsplit - 1)

\* str.lstrip(chars)
RECURSIVE LStrip(_, _)
LStrip(s, chars) ==
    IF Len(s) > 0 /\ s[1] \in chars THEN LStrip(Tail(s), chars) ELSE s

\* str.rstrip(chars)
RECURSIVE RStrip(_, _)
RStrip(s, chars) ==
    IF Len(s) > 0 /\ s[Len(s)] \in chars
    THEN RStrip(SubSeq(s, 1, Len(s) - 1), chars)
    ELSE s

\* str.strip(chars)
Strip(s, chars) == RStrip(LStrip(s, chars), chars)

\* the characters str.strip() removes when called without an argument
Whitespace == {" ", "\n", "\t"}

\* file.readlines(): the lines of a text, each keeping its terminating "\n"
RECURSIVE ReadLines(_)
ReadLines(text) ==
    LET i == FindChar(text, "\n", 1) IN
    IF Len(text) = 0 THEN << >>
    ELSE IF i = 0 THEN << text >>
    ELSE << SubSeq(text, 1, i) >> \o ReadLines(SubSeq(text, i + 1, Len(text)))

\* file.writelines(lines): the concatenation of the lines, nothing added
RECURSIVE WriteLines(_)
WriteLines(lines) ==
    IF Len(lines) = 0 THEN << >> ELSE Head(lines) \o WriteLines(Tail(lines))

\* sys.exit(status), or the interpreter ending on an uncaught exception
Exit(status) ==
    /\ exit' = status
    /\ pc' = "exited"

\* requests of one page of the release list followed in one call
MaxVisits == 2

\* the value of a path that names no file
NoFile == << "<nofile>" >>

(***************************************************************************)
(* _WyzeBridgeInstallation.update_env_file                                 *)
(***************************************************************************)

\* the keys the installer upserts into the application's .env
VERSION == << "V", "E", "R", "S", "I", "O", "N" >>
MTX_TAG == << "M", "T", "X", "_", "T", "A", "G" >>

\* new_line = f"{key}={value}\n"
NewLine(key, value) == key \o << "=" >> \o value \o << "\n" >>

\* index of the first line that starts with prefix, 0 when there is none
RECURSIVE FirstLineWith(_, _, _)
FirstLineWith(lines, prefix, i) ==
    IF i > Len(lines) THEN 0
    ELSE IF StartsWith(lines[i], prefix) THEN i
    ELSE FirstLineWith(lines, prefix, i + 1)

\* the scan of update_env_file over env_content: replace the first line that
\* starts with "key=" and stop, append new_line when no line does
UpsertLines(env_content, key, value) ==
    LET i == FirstLineWith(env_content, key \o << "=" >>, 1) IN
    IF i # 0
    THEN [env_content EXCEPT ![i] = NewLine(key, value)]
    ELSE Append(env_content, NewLine(key, value))

\* update_env_file(key, value) on the content of self._env_file: the content
\* written back and the exit status ("running": the call returns)
update_env_file(content, key, value) ==
    IF content = NoFile
    THEN [file |-> NoFile, exit |-> "1"]
    ELSE [file |-> WriteLines(UpsertLines(ReadLines(content), key, value)),
          exit |-> "running"]

(***************************************************************************)
(* _FilesystemActions.extract_tarball                                      *)
(***************************************************************************)

\* file_name_contains = None
NoFilter == << "<none>" >>

\* file_name_contains of install_docker_wyze_bridge_app
AppFilter == << "/", "a", "p", "p", "/" >>

\* the loop continues without extracting the member
Skipped == << "<skip>" >>

\* the name extract_tarball gives a member before tar.extract(), or Skipped
MemberName(name, file_name_contains, strip_dirs) ==
    IF file_name_contains # NoFilter
    THEN IF Contains(name, file_name_contains)
         THEN IF strip_dirs # 0
              THEN LET parts == Split(name, "/", strip_dirs) IN parts[Len(parts)]
              ELSE name
         ELSE Skipped
    ELSE name

\* the whole loop of extract_tarball over tar.getmembers(): the members
\* extracted, in order, each with its original name and the name used
RECURSIVE extract_tarball(_, _, _)
extract_tarball(members, file_name_contains, strip_dirs) ==
    IF Len(members) = 0 THEN << >>
    ELSE LET n == MemberName(Head(members), file_name_contains, strip_dirs)
             rest == extract_tarball(Tail(members), file_name_contains, strip_dirs)
         IN IF n = Skipped THEN rest
            ELSE << [orig |-> Head(members), name |-> n] >> \o rest

(***************************************************************************)
(* _Config                                                                 *)
(*                                                                         *)
(* A configuration value is a string; a string whose characters the        *)
(* program never inspects is kept whole, as a one-element sequence.  The   *)
(* Python values that are not strings (None, True, False, 5000) are        *)
(* one-element sequences in angle brackets, so that a value compares       *)
(* unequal to every string, as in Python.                                  *)
(***************************************************************************)

None == << "<None>" >>
True == << "<True>" >>
False == << "<False>" >>
LATEST == << "l", "a", "t", "e", "s", "t" >>
DefaultConf == << "/etc/wyze-bridge/install.json" >>

\* the attributes _Config.__init__ sets, which are also the flags
\* create_arguments declares
Fields ==
    { "APP_CONF", "APP_GUNICORN", "APP_IP", "APP_PATH", "APP_PORT", "APP_USER",
      "APP_VERSION", "MEDIA_MTX_VERSION", "MEDIA_MTX_PATH", "INSTALLATION_CONF" }

\* the values _Config.__init__ assigns before it reads the settings file
Defaults ==
    [ k \in Fields |->
        CASE k = "APP_CONF" -> << "/etc/wyze-bridge/app.env" >>
          [] k = "APP_GUNICORN" -> False
          [] k = "APP_IP" -> << "0.0.0.0" >>
          [] k = "APP_PATH" -> << "/srv/wyze-bridge" >>
          [] k = "APP_PORT" -> << "<5000>" >>
          [] k = "APP_USER" -> << "wyze" >>
          [] k = "APP_VERSION" -> LATEST
          [] k = "MEDIA_MTX_VERSION" -> LATEST
          [] k = "MEDIA_MTX_PATH" -> << "/srv/mediamtx" >>
          [] k = "INSTALLATION_CONF" -> DefaultConf ]

\* a settings file: absent, present but not JSON, or a JSON object
Absent == [kind |-> "absent", data |-> << >>]
Malformed == [kind |-> "malformed", data |-> << >>]
Json(obj) == [kind |-> "json", data |-> obj]

FileAt(fs, path) == IF path \in DOMAIN fs THEN fs[path] ELSE Absent

\* read_config_file: the object after the call and the exit status.  A file
\* that json.load rejects lands in the bare except, whose _print_color call
\* lacks its color argument: the TypeError is not caught.
read_config_file(self, fs) ==
    LET f == FileAt(fs, self["INSTALLATION_CONF"]) IN
    IF f.kind = "absent" THEN [cfg |-> self, exit |-> "running"]
    ELSE IF f.kind = "malformed" THEN [cfg |-> self, exit |-> "traceback"]
    ELSE [cfg |-> [k \in DOMAIN self \cup DOMAIN f.data |->
                     IF k \in DOMAIN f.data THEN f.data[k] ELSE self[k]],
          exit |-> "running"]

\* _Config(): the defaults, then read_config_file
ConfigNew(fs) == read_config_file(Defaults, fs)

\* value.lower() of the flag values tried
Lower(value) ==
    CASE value = << "YES" >> -> << "yes" >>
      [] value = << "No" >> -> << "no" >>
      [] OTHER -> value

\* _str2bool: True, False, or None when it raises ArgumentTypeError
str2bool(value) ==
    IF value \in {True, False} THEN value
    ELSE IF Lower(value) \in {<< "yes" >>, << "true" >>, << "t" >>, << "y" >>, << "1" >>}
    THEN True
    ELSE IF Lower(value) \in {<< "no" >>, << "false" >>, << "f" >>, << "n" >>, << "0" >>}
    THEN False
    ELSE None

\* the loop of parse_arguments over self.__dict__: a flag that was given and
\* differs from the attribute replaces it
ApplyFlags(self, args) ==
    [k \in DOMAIN self |->
        IF args[k] = None THEN self[k]
        ELSE IF self[k] # args[k]
             THEN IF k = "APP_GUNICORN" THEN str2bool(args[k]) ELSE args[k]
             ELSE self[k]]

\* the loop raises: an attribute that is no flag (KeyError on args.__dict__),
\* or an APP_GUNICORN flag _str2bool rejects
ApplyFlagsRaises(self, args) ==
    \/ \E k \in DOMAIN self : k \notin DOMAIN args
    \/ /\ args["APP_GUNICORN"] # None
       /\ self["APP_GUNICORN"] # args["APP_GUNICORN"]
       /\ str2bool(args["APP_GUNICORN"]) = None

\* the last statement of parse_arguments without its test of the action
UpdateMeansLatestAnyAction(self, args, action) ==
    IF args["APP_VERSION"] = None
    THEN [self EXCEPT !["APP_VERSION"] = LATEST]
    ELSE self

\* the last statement of parse_arguments
UpdateMeansLatest(self, args, action) ==
    IF action = "update" /\ args["APP_VERSION"] = None
    THEN [self EXCEPT !["APP_VERSION"] = LATEST]
    ELSE self

\* parse_arguments(args): the object after the call and the exit status
parse_arguments(self, args, action, fs) ==
    LET r == IF args["INSTALLATION_CONF"] # None
             THEN read_config_file(
                     [self EXCEPT !["INSTALLATION_CONF"] = args["INSTALLATION_CONF"]],
                     fs)
             ELSE [cfg |-> self, exit |-> "running"]
    IN IF r.exit # "running" THEN r
       ELSE IF ApplyFlagsRaises(r.cfg, args) THEN [cfg |-> r.cfg, exit |-> "traceback"]
       ELSE [cfg |-> UpdateMeansLatest(ApplyFlags(r.cfg, args), args, action),
             exit |-> "running"]

\* write_config_file: the settings files after the call
write_config_file(self, fs) ==
    [fs EXCEPT ![self["INSTALLATION_CONF"]] =
        Json([k \in (DOMAIN self) \ {"INSTALLATION_CONF"} |-> self[k]])]

(***************************************************************************)
(* __main__, up to the dispatch on the action                              *)
(***************************************************************************)

\* the versions of the interpreter tried, and python_version's min_version
PythonVersions == { << 3, 9 >>, << 3, 10 >>, << 4, 0 >> }
MinPython == << 3, 10 >>
TupleLess(a, b) == a[1] < b[1] \/ (a[1] = b[1] /\ a[2] < b[2])

\* _Prerequisites.is_root()
IsRoot ==
    /\ UNCHANGED << env_file, calls, tar, extracted, repo, gh, disk, start, wb >>
    /\ pc = "is_root"
    /\ IF inv.root
       THEN pc' = "python_version" /\ UNCHANGED exit
       ELSE Exit("1")
    /\ UNCHANGED << inv, scriptConfig, settings, events >>

\* _Prerequisites.python_version()
PythonVersion ==
    /\ UNCHANGED << env_file, calls, tar, extracted, repo, gh, disk, start, wb >>
    /\ pc = "python_version"
    /\ \E current_version \in PythonVersions :
          IF TupleLess(current_version, MinPython)
          THEN Exit("1")
          ELSE pc' = "config" /\ UNCHANGED exit
    /\ UNCHANGED << inv, scriptConfig, settings, events >>

\* scriptConfig = _Config()
ConfigInit ==
    /\ UNCHANGED << env_file, calls, tar, extracted, repo, gh, disk, start, wb >>
    /\ pc = "config"
    /\ LET r == ConfigNew(settings) IN
       /\ scriptConfig' = r.cfg
       /\ IF r.exit = "running"
          THEN pc' = "parse_arguments" /\ UNCHANGED exit
          ELSE Exit(r.exit)
    /\ UNCHANGED << inv, settings, events >>

\* scriptConfig.parse_arguments(args)
ParseArguments ==
    /\ UNCHANGED << env_file, calls, tar, extracted, repo, gh, disk, start, wb >>
    /\ pc = "parse_arguments"
    /\ LET r == parse_arguments(scriptConfig, inv.args, inv.action, settings) IN
       /\ scriptConfig' = r.cfg
       /\ IF r.exit = "running"
          THEN pc' = "parsed" /\ UNCHANGED exit
          ELSE Exit(r.exit)
    /\ UNCHANGED << inv, settings, events >>

\* if args.action == 'show-settings': print every described field, exit 0
ShowSettings ==
    /\ UNCHANGED << env_file, calls, tar, extracted, repo, gh, disk, start, wb >>
    /\ pc = "parsed"
    /\ inv.action = "show-settings"
    /\ Exit("0")
    /\ UNCHANGED << inv, scriptConfig, settings, events >>

\* scriptConfig.write_config_file()
WriteConfigFile ==
    /\ UNCHANGED << env_file, calls, tar, extracted, repo, gh, disk, start, wb >>
    /\ pc = "parsed"
    /\ inv.action # "show-settings"
    /\ settings' = write_config_file(scriptConfig, settings)
    /\ events' = Append(events, << "write_config_file" >>)
    /\ pc' = "detect_service_manager"
    /\ UNCHANGED << exit, inv, scriptConfig >>

\* _Prerequisites.detect_service_manager()
DetectServiceManager ==
    /\ UNCHANGED << env_file, calls, tar, extracted, repo, gh, disk, start, wb >>
    /\ pc = "detect_service_manager"
    /\ \E found \in {"systemd", "openrc", "none"} :
          IF found = "none"
          THEN Exit("1") /\ UNCHANGED inv
          ELSE /\ inv' = [inv EXCEPT !.service_manager = found]
               /\ pc' = "internet_access"
               /\ UNCHANGED exit
    /\ UNCHANGED << scriptConfig, settings, events >>

\* connected = _Prerequisites.internet_access()
InternetAccess ==
    /\ UNCHANGED << env_file, calls, tar, extracted, repo, gh, disk, start, wb >>
    /\ pc = "internet_access"
    /\ events' = Append(events, << "connect" >>)
    /\ \E connected \in BOOLEAN :
          IF connected
          THEN pc' = "run" /\ UNCHANGED exit
          ELSE Exit("1")
    /\ UNCHANGED << inv, scriptConfig, settings >>

(***************************************************************************)
(* _Github: fetch_release_url and get_release                              *)
(*                                                                         *)
(* The API serves the release list in pages of PerPage releases.  A        *)
(* response carries a link header when there is more than one page: an     *)
(* entry rel="next" and rel="last" on every page but the last, rel="prev"  *)
(* and rel="first" on every page but the first, in the order repo gives.   *)
(* A URL is modelled by what it names: a page of the list, a release, the  *)
(* latest release.                                                         *)
(***************************************************************************)

\* releases on a page of the list
PerPage == 1

NumPages(releases) ==
    IF Len(releases) = 0 THEN 1
    ELSE (Len(releases) + PerPage - 1) \div PerPage

\* json.loads(response.read()) of page p: the indexes of its releases
PageReleases(releases, p) ==
    { i \in 1..Len(releases) : (i - 1) \div PerPage = p - 1 }

\* response.headers.get('link', '') of page p: the entries, in order
LinkHeader(p) ==
    LET last == NumPages(repo[gh.repo_name].releases)
        link_order == repo[gh.repo_name].link_order
        entry(rel) ==
            CASE rel = "next" -> IF p < last THEN << [page |-> p + 1, rel |-> rel] >> ELSE << >>
              [] rel = "last" -> IF p < last THEN << [page |-> last, rel |-> rel] >> ELSE << >>
              [] rel = "prev" -> IF p > 1 THEN << [page |-> p - 1, rel |-> rel] >> ELSE << >>
              [] rel = "first" -> IF p > 1 THEN << [page |-> 1, rel |-> rel] >> ELSE << >>
    IN entry(link_order[1]) \o entry(link_order[2])
       \o entry(link_order[3]) \o entry(link_order[4])

\* "next" in response.headers.get('link', '')
HasNext(header) == \E i \in 1..Len(header) : header[i].rel = "next"

\* response.headers['link'].split(',')[0].split(';')[0].strip('<> '): the
\* URL of the first entry of the header, whatever its rel
NextLink(header) == header[1].page

\* release["name"] == version or release["tag_name"] in [version, f"v{version}"]
ReleaseMatches(release, version) ==
    \/ release.name = version
    \/ release.tag_name \in { version, << "v" >> \o version }

\* the first release of page p that matches, 0 when none does
FirstMatch(releases, p, version) ==
    LET hits == { i \in PageReleases(releases, p) :
                    ReleaseMatches(releases[i], version) }
    IN IF hits = {} THEN 0
       ELSE CHOOSE i \in hits : \A j \in hits : i <= j

LatestUrl == 0
NoUrl == -1
NoDescriptor == [tag_name |-> None, tarball |-> None]

\* asset_pattern of install_mediamtx
LINUX_AMD64 == << "l", "i", "n", "u", "x", "_", "a", "m", "d", "6", "4" >>

\* the dictionary get_release returns for release_info, NoDescriptor when
\* the function falls off its end (an asset_pattern no asset matches)
Descriptor(release_info, asset_pattern) ==
    IF asset_pattern # None
    THEN LET hits == { i \in 1..Len(release_info.assets) :
                         Contains(release_info.assets[i], asset_pattern) }
         IN IF hits = {} THEN NoDescriptor
            ELSE [tag_name |-> release_info.tag_name,
                  tarball |-> release_info.assets[
                                CHOOSE i \in hits : \A j \in hits : i <= j]]
    ELSE [tag_name |-> release_info.tag_name, tarball |-> << "tarball_url" >>]

GhIdle ==
    [pc |-> "idle", repo_name |-> "docker-wyze-bridge", version |-> None, asset_pattern |-> None, page |-> 0,
     visits |-> << >>, release_url |-> NoUrl, result |-> NoDescriptor,
     error |-> "none"]

\* the call get_release(version, asset_pattern) begins
GhCall(repo_name, version, asset_pattern) ==
    [GhIdle EXCEPT !.pc = "fetch_release_url", !.repo_name = repo_name,
                   !.version = version, !.asset_pattern = asset_pattern,
                   !.visits = [p \in 1..NumPages(repo[repo_name].releases) |-> 0]]

GhFail(error, status) ==
    /\ gh' = [gh EXCEPT !.pc = "exited", !.error = error]
    /\ Exit(status)

\* fetch_release_url up to the while loop: the "latest" shortcut, or the
\* request for the first page of the list
FetchReleaseUrl ==
    /\ gh.pc = "fetch_release_url"
    /\ exit = "running"
    /\ IF gh.version = LATEST
       THEN /\ gh' = [gh EXCEPT !.pc = "get_release", !.release_url = LatestUrl]
            /\ UNCHANGED << exit, pc >>
       ELSE \E outcome \in {"ok", "raise", "status"} :
               CASE outcome = "ok" ->
                      /\ gh' = [gh EXCEPT !.pc = "while", !.page = 1,
                                          !.visits[1] = @ + 1]
                      /\ UNCHANGED << exit, pc >>
                 [] outcome = "raise" -> GhFail("network", "1")
                 [] outcome = "status" -> GhFail("status", "2")
    /\ UNCHANGED << env_file, calls, tar, extracted, inv, scriptConfig,
                    settings, events, repo, disk, start, wb >>

\* one test of the while condition of fetch_release_url and, when it holds,
\* one iteration: scan the page, return a match or request the next link
WhileNext ==
    /\ gh.pc = "while"
    /\ exit = "running"
    /\ LET header == LinkHeader(gh.page)
           hit == FirstMatch(repo[gh.repo_name].releases, gh.page, gh.version)
       IN IF ~HasNext(header)
          THEN GhFail("not_found", "1")
          ELSE IF hit # 0
          THEN /\ gh' = [gh EXCEPT !.pc = "get_release", !.release_url = hit]
               /\ UNCHANGED << exit, pc >>
          ELSE \E outcome \in {"ok", "raise"} :
                  IF outcome = "ok"
                  THEN /\ gh.visits[NextLink(header)] < MaxVisits
                       /\ gh' = [gh EXCEPT !.page = NextLink(header),
                                           !.visits[NextLink(header)] = @ + 1]
                       /\ UNCHANGED << exit, pc >>
                  ELSE GhFail("network", "1")
    /\ UNCHANGED << env_file, calls, tar, extracted, inv, scriptConfig,
                    settings, events, repo, disk, start, wb >>

\* get_release after fetch_release_url returned: request the release, decode
\* it, pick the asset or the tarball
GetRelease ==
    /\ gh.pc = "get_release"
    /\ exit = "running"
    /\ \E outcome \in {"ok", "raise", "decode"} :
          CASE outcome = "ok" ->
                 IF gh.release_url = LatestUrl
                    /\ Len(repo[gh.repo_name].releases) = 0
                 THEN GhFail("network", "1")
                 ELSE LET releases == repo[gh.repo_name].releases
                          release_info ==
                            IF gh.release_url = LatestUrl THEN releases[1]
                            ELSE releases[gh.release_url]
                      IN /\ gh' = [gh EXCEPT !.pc = "returned",
                                      !.result = Descriptor(release_info,
                                                            gh.asset_pattern)]
                         /\ UNCHANGED << exit, pc >>
            [] outcome = "raise" -> GhFail("network", "1")
            [] outcome = "decode" -> GhFail("decode", "1")
    /\ UNCHANGED << env_file, calls, tar, extracted, inv, scriptConfig,
                    settings, events, repo, disk, start, wb >>

(***************************************************************************)
(* _WyzeBridgeInstallation and the disk                                    *)
(***************************************************************************)

\* the state of the managed paths.  env_file holds <install_path>/.env.
\*   app_dir       the install directory (APP_PATH) exists
\*   frontend      <install_path>/frontend.py exists
\*   requirements  <install_path>/requirements.txt exists
\*   mtx_server    <install_path>/wyzebridge/mtx_server.py: "absent",
\*                 "unpatched" (holds '/app/mediamtx') or "patched"
\*   tokens        /tokens exists
\*   app_conf      the content of APP_CONF: "absent", "template" (what
\*                 create_settings_file writes) or "operator" (edited)
\*   user          the service account exists
\*   mediamtx      what `mediamtx --version` prints, None without the binary
FreshDisk ==
    [app_dir |-> FALSE, frontend |-> FALSE, requirements |-> FALSE,
     mtx_server |-> "absent", tokens |-> FALSE, app_conf |-> "absent",
     user |-> FALSE, mediamtx |-> None]

\* the object before __init__, and the locals before their assignment
NoInstallation ==
    [version |-> None, installed |-> FALSE, user_home |-> FALSE,
     venv_path |-> FALSE, latest_version_number |-> << >>,
     skip_app_install |-> FALSE, installed_version |-> None,
     version_tag |-> None, latest_ver_num |-> None, backup_i |-> 1,
     latest_mtx_tag |-> None, DWB_UPDATED |-> FALSE,
     MEDIAMTX_UPDATED |-> FALSE]

\* _WyzeBridgeInstallation(install_path, version)
Installation(version) ==
    [NoInstallation EXCEPT !.version = version, !.installed = disk.frontend]

\* get_installed_dwb_version on the content of the .env: the version, None
\* when no line starts with VERSION, and whether line.split('=')[1] raises
RECURSIVE VersionOfLines(_)
VersionOfLines(lines) ==
    IF Len(lines) = 0 THEN [value |-> None, raises |-> FALSE]
    ELSE IF StartsWith(Head(lines), VERSION)
         THEN LET parts == Split(Head(lines), "=", -1) IN
              IF Len(parts) < 2 THEN [value |-> None, raises |-> TRUE]
              ELSE [value |-> Strip(parts[2], Whitespace), raises |-> FALSE]
         ELSE VersionOfLines(Tail(lines))

get_installed_dwb_version(content) ==
    IF content = NoFile THEN [value |-> None, raises |-> FALSE]
    ELSE VersionOfLines(ReadLines(content))

\* paths, as strings
ROOT ==
    << "r" >>
ROOT_APP ==
    << "r", "/", "a", "p", "p" >>
ROOT_README ==
    << "r", "/", "R", "E", "A", "D", "M", "E", ".", "m", "d" >>
APP_FRONTEND ==
    << "r", "/", "a", "p", "p", "/", "f", "r", "o", "n", "t", "e", "n", "d", ".", "p", "y" >>
APP_REQUIREMENTS ==
    << "r", "/", "a", "p", "p", "/", "r", "e", "q", "u", "i", "r", "e", "m", "e", "n", "t", "s", ".", "t", "x", "t" >>
APP_MTX_SERVER ==
    << "r", "/", "a", "p", "p", "/", "w", "y", "z", "e", "b", "r", "i", "d", "g", "e", "/", "m", "t", "x", "_", "s", "e", "r", "v", "e", "r", ".", "p", "y" >>
APP_ENV ==
    << "r", "/", "a", "p", "p", "/", ".", "e", "n", "v" >>
FRONTEND_PY ==
    << "f", "r", "o", "n", "t", "e", "n", "d", ".", "p", "y" >>
REQUIREMENTS_TXT ==
    << "r", "e", "q", "u", "i", "r", "e", "m", "e", "n", "t", "s", ".", "t", "x", "t" >>
MTX_SERVER_PY ==
    << "w", "y", "z", "e", "b", "r", "i", "d", "g", "e", "/", "m", "t", "x", "_", "s", "e", "r", "v", "e", "r", ".", "p", "y" >>
DOT_ENV ==
    << ".", "e", "n", "v" >>

\* the members of a source tarball of docker-wyze-bridge whose app/.env has
\* the given content (NoFile: the archive has no app/.env)
AppTarball(env) ==
    << ROOT, ROOT_APP, ROOT_README, APP_FRONTEND, APP_REQUIREMENTS,
       APP_MTX_SERVER >>
    \o (IF env = NoFile THEN << >> ELSE << APP_ENV >>)

\* the names extract_tarball(tar_data, install_path, "/app/", 2) writes
AppNames(env) ==
    LET got == extract_tarball(AppTarball(env), AppFilter, 2) IN
    { got[i].name : i \in 1..Len(got) }

\* the install directory after the extraction of the archive
DiskAfterExtract(d, env) ==
    LET names == AppNames(env) IN
    [d EXCEPT !.app_dir = TRUE,
              !.frontend = @ \/ FRONTEND_PY \in names,
              !.requirements = @ \/ REQUIREMENTS_TXT \in names,
              !.mtx_server = IF MTX_SERVER_PY \in names THEN "unpatched" ELSE @]

EnvAfterExtract(content, env) ==
    IF DOT_ENV \in AppNames(env) THEN env ELSE content

\* rmtree(scriptConfig.APP_PATH)
DiskAfterRmtree(d) ==
    [d EXCEPT !.app_dir = FALSE, !.frontend = FALSE, !.requirements = FALSE,
              !.mtx_server = "absent"]

runVars == << env_file, events, gh, disk, wb, exit, pc >>

RunFrame ==
    UNCHANGED << calls, tar, extracted, inv, scriptConfig, settings, repo, start >>

Goto(label) == pc' = label /\ UNCHANGED exit

Log(event) == events' = Append(events, event)

\* the release the last get_release call resolved
ResolvedRelease ==
    LET releases == repo[gh.repo_name].releases IN
    IF gh.release_url = LatestUrl THEN releases[1] ELSE releases[gh.release_url]

\* the truth value Python gives a configuration value
Truthy(value) == value \notin { False, None, << >> }

(***************************************************************************)
(* run_install                                                             *)
(***************************************************************************)

\* run_install up to the lookup of the latest release
RunInstall ==
    /\ pc = "run"
    /\ inv.action = "install"
    /\ wb' = Installation(scriptConfig["APP_VERSION"])
    /\ IF scriptConfig["APP_VERSION"] = LATEST
       THEN /\ gh' = GhCall("docker-wyze-bridge", LATEST, None)
            /\ Goto("install_latest")
       ELSE /\ UNCHANGED gh
            /\ Goto("install_check")
    /\ UNCHANGED << env_file, events, disk >>
    /\ RunFrame

\* latest_version_number = dwb_latest_release.get('tag_name', '').strip('v')
InstallLatest ==
    /\ pc = "install_latest"
    /\ gh.pc = "returned"
    /\ wb' = [wb EXCEPT !.latest_version_number =
                            Strip(gh.result.tag_name, {"v"})]
    /\ Goto("install_check")
    /\ UNCHANGED << env_file, events, disk, gh >>
    /\ RunFrame

\* the comparison of the installed version with latest_version_number
InstallCheck ==
    /\ pc = "install_check"
    /\ LET r == get_installed_dwb_version(env_file) IN
       IF wb.installed
       THEN IF r.raises
            THEN Exit("traceback") /\ UNCHANGED wb
            ELSE /\ wb' = [wb EXCEPT
                             !.installed_version = r.value,
                             !.skip_app_install =
                                 (r.value # None
                                  /\ r.value = wb.latest_version_number)]
                 /\ Goto("create_service_user")
       ELSE UNCHANGED wb /\ Goto("create_service_user")
    /\ UNCHANGED << env_file, events, disk, gh >>
    /\ RunFrame

\* create_service_user: a failing useradd is reported by _exec_command and
\* the run goes on without the account
CreateServiceUser ==
    /\ pc = "create_service_user"
    /\ IF disk.user
       THEN UNCHANGED << disk, events >>
       ELSE \E created \in BOOLEAN :
               /\ disk' = [disk EXCEPT !.user = created]
               /\ Log(IF created THEN << "useradd" >>
                      ELSE << "command_failed", "useradd" >>)
    /\ wb' = [wb EXCEPT !.user_home = TRUE]
    /\ Goto(IF inv.action = "install" THEN "create_application_folders"
            ELSE "update_check")
    /\ UNCHANGED << env_file, gh >>
    /\ RunFrame

\* create_application_folders(['/img', '/tokens', APP_PATH])
CreateApplicationFolders ==
    /\ pc = "create_application_folders"
    /\ \E ok \in BOOLEAN :
          IF ok
          THEN /\ disk' = [disk EXCEPT !.tokens = TRUE, !.app_dir = TRUE]
               /\ Log(<< "makedirs" >>)
               /\ Goto(IF wb.skip_app_install THEN "create_pyvenv"
                       ELSE "install_app")
          ELSE Exit("1") /\ UNCHANGED << disk, events >>
    /\ UNCHANGED << env_file, gh, wb >>
    /\ RunFrame

\* install_docker_wyze_bridge_app: dwb_git.get_release(version=self.version)
InstallApp ==
    /\ pc = "install_app"
    /\ gh' = GhCall("docker-wyze-bridge", wb.version, None)
    /\ Goto("install_app_release")
    /\ UNCHANGED << env_file, events, disk, wb >>
    /\ RunFrame

\* version_tag = dwb_release.get('tag_name', '').lstrip('v')
InstallAppRelease ==
    /\ pc = "install_app_release"
    /\ gh.pc = "returned"
    /\ wb' = [wb EXCEPT !.version_tag = LStrip(gh.result.tag_name, {"v"})]
    /\ Goto("install_app_download")
    /\ UNCHANGED << env_file, events, disk, gh >>
    /\ RunFrame

\* tar_data = dwb_git.download_file(url=dwb_release["tarball"])
InstallAppDownload ==
    /\ pc = "install_app_download"
    /\ \E ok \in BOOLEAN :
          IF ok
          THEN Log(<< "download" >>) /\ Goto("install_app_extract")
          ELSE Exit("1") /\ UNCHANGED events
    /\ UNCHANGED << env_file, disk, gh, wb >>
    /\ RunFrame

\* extract_tarball(tar_data, self.install_path, "/app/", strip_dirs=2); an
\* exception on the way leaves what was extracted and ends the run
InstallAppExtract ==
    /\ pc = "install_app_extract"
    /\ \E ok \in BOOLEAN :
          IF ok
          THEN /\ disk' = DiskAfterExtract(disk, ResolvedRelease.env)
               /\ env_file' = EnvAfterExtract(env_file, ResolvedRelease.env)
               /\ Log(<< "extract" >>)
               /\ Goto("install_app_version")
          ELSE /\ disk' = [disk EXCEPT !.app_dir = TRUE]
               /\ UNCHANGED env_file
               /\ Log(<< "extract_failed" >>)
               /\ Exit("1")
    /\ UNCHANGED << gh, wb >>
    /\ RunFrame

\* self.update_env_file(key="VERSION", value=version_tag)
InstallAppVersion ==
    /\ pc = "install_app_version"
    /\ LET r == update_env_file(env_file, VERSION, wb.version_tag) IN
       /\ env_file' = r.file
       /\ IF r.exit = "running"
          THEN Goto(IF inv.action = "install" THEN "create_pyvenv"
                    ELSE "install_python_requirements")
          ELSE Exit(r.exit)
    /\ UNCHANGED << events, disk, gh, wb >>
    /\ RunFrame

\* create_pyvenv(<user_home>/.wyze-venv)
CreatePyvenv ==
    /\ pc = "create_pyvenv"
    /\ \E ok \in BOOLEAN :
          IF ok
          THEN /\ Log(<< "venv" >>)
               /\ wb' = [wb EXCEPT !.venv_path = TRUE]
               /\ Goto("install_python_requirements")
          ELSE Exit("1") /\ UNCHANGED << events, wb >>
    /\ UNCHANGED << env_file, disk, gh >>
    /\ RunFrame

\* install_python_requirements; run_update sets venv_path just before it
InstallPythonRequirements ==
    /\ pc = "install_python_requirements"
    /\ IF disk.requirements
       THEN /\ Log(<< "pip" >>)
            /\ wb' = [wb EXCEPT !.venv_path = TRUE]
            /\ Goto(IF inv.action = "install" THEN "install_iotc_library"
                    ELSE "update_chown")
       ELSE Exit("1") /\ UNCHANGED << events, wb >>
    /\ UNCHANGED << env_file, disk, gh >>
    /\ RunFrame

\* install_iotc_library
InstallIotcLibrary ==
    /\ pc = "install_iotc_library"
    /\ \E ok \in BOOLEAN :
          IF ok
          THEN Log(<< "iotc" >>) /\ Goto("create_settings_file")
          ELSE Exit("1") /\ UNCHANGED events
    /\ UNCHANGED << env_file, disk, gh, wb >>
    /\ RunFrame

\* create_settings_file(scriptConfig.APP_CONF): open(file_path, 'w') and
\* the template, whatever the file held
CreateSettingsFile ==
    /\ pc = "create_settings_file"
    /\ \E ok \in BOOLEAN :
          IF ok
          THEN /\ disk' = [disk EXCEPT !.app_conf = "template"]
               /\ Log(<< "create_settings_file" >>)
               /\ Goto("install_mediamtx")
          ELSE Exit("1") /\ UNCHANGED << disk, events >>
    /\ UNCHANGED << env_file, gh, wb >>
    /\ RunFrame

\* install_mediamtx: mediamtx_git.get_release(version, "linux_amd64")
InstallMediamtx ==
    /\ pc = "install_mediamtx"
    /\ gh' = GhCall("mediamtx", scriptConfig["MEDIA_MTX_VERSION"], LINUX_AMD64)
    /\ Goto("install_mediamtx_release")
    /\ UNCHANGED << env_file, events, disk, wb >>
    /\ RunFrame

\* `mediamtx --version`, stripped: result.stdout.strip().split(" ")[-1].strip('v')
current_mtx_version ==
    IF disk.mediamtx = None THEN None ELSE Strip(disk.mediamtx, {"v"})

\* latest_mtx_tag and the comparison with current_mtx_version; a release
\* without a matching asset makes get_release return None, and .get raises
InstallMediamtxRelease ==
    /\ pc = "install_mediamtx_release"
    /\ gh.pc = "returned"
    /\ IF gh.result = NoDescriptor
       THEN Exit("1") /\ UNCHANGED wb
       ELSE LET latest_mtx_tag == LStrip(gh.result.tag_name, {"v"}) IN
            /\ wb' = [wb EXCEPT !.latest_mtx_tag = latest_mtx_tag]
            /\ Goto(IF current_mtx_version # latest_mtx_tag
                    THEN "mediamtx_download" ELSE "mediamtx_env")
    /\ UNCHANGED << env_file, events, disk, gh >>
    /\ RunFrame

\* download, extract, chown and chmod of the mediamtx binary; CHANGED = True
MediamtxDownload ==
    /\ pc = "mediamtx_download"
    /\ \E ok \in BOOLEAN :
          IF ok
          THEN /\ disk' = [disk EXCEPT !.mediamtx = gh.result.tag_name]
               /\ Log(<< "mediamtx_extract" >>)
               /\ wb' = [wb EXCEPT !.MEDIAMTX_UPDATED = TRUE]
               /\ Goto("mediamtx_env")
          ELSE Exit("1") /\ UNCHANGED << disk, events, wb >>
    /\ UNCHANGED << env_file, gh >>
    /\ RunFrame

\* self.update_env_file(key="MTX_TAG", value=latest_mtx_tag), and the return
MediamtxEnv ==
    /\ pc = "mediamtx_env"
    /\ LET r == update_env_file(env_file, MTX_TAG, wb.latest_mtx_tag) IN
       /\ env_file' = r.file
       /\ IF r.exit = "running"
          THEN Goto(IF inv.action = "install" \/ wb.MEDIAMTX_UPDATED
                    THEN "patch_mediamtx_path" ELSE "finish")
          ELSE Exit(r.exit)
    /\ UNCHANGED << events, disk, gh, wb >>
    /\ RunFrame

\* patch_mediamtx_path
PatchMediamtxPath ==
    /\ pc = "patch_mediamtx_path"
    /\ IF disk.mtx_server # "absent"
       THEN /\ disk' = [disk EXCEPT !.mtx_server = "patched"]
            /\ Log(<< "patch" >>)
       ELSE UNCHANGED << disk, events >>
    /\ Goto(IF inv.action = "install" THEN "install_ffmpeg" ELSE "finish")
    /\ UNCHANGED << env_file, gh, wb >>
    /\ RunFrame

\* install_ffmpeg: already there, installed from its latest release, or the
\* lookup, the download or the check fails
InstallFfmpeg ==
    /\ pc = "install_ffmpeg"
    /\ \E outcome \in {"present", "installed", "failed"} :
          CASE outcome = "present" ->
                 UNCHANGED events /\ Goto("install_gunicorn")
            [] outcome = "installed" ->
                 Log(<< "ffmpeg" >>) /\ Goto("install_gunicorn")
            [] outcome = "failed" -> Exit("1") /\ UNCHANGED events
    /\ UNCHANGED << env_file, disk, gh, wb >>
    /\ RunFrame

\* if scriptConfig.APP_GUNICORN: install_gunicorn()
InstallGunicorn ==
    /\ pc = "install_gunicorn"
    /\ IF Truthy(scriptConfig["APP_GUNICORN"])
       THEN Log(<< "gunicorn" >>)
       ELSE UNCHANGED events
    /\ Goto("install_service")
    /\ UNCHANGED << env_file, disk, gh, wb >>
    /\ RunFrame

\* install_service_openrc or install_service_systemd
InstallService ==
    /\ pc = "install_service"
    /\ \E ok \in BOOLEAN :
          IF ok
          THEN Log(<< "unit_file", inv.service_manager >>) /\ Goto("finish")
          ELSE Exit("1") /\ UNCHANGED events
    /\ UNCHANGED << env_file, disk, gh, wb >>
    /\ RunFrame

(***************************************************************************)
(* run_update                                                              *)
(***************************************************************************)

\* dwb_release = dwb_git.get_release(version=scriptConfig.APP_VERSION)
RunUpdate ==
    /\ pc = "run"
    /\ inv.action = "update"
    /\ gh' = GhCall("docker-wyze-bridge", scriptConfig["APP_VERSION"], None)
    /\ Goto("update_release")
    /\ UNCHANGED << env_file, events, disk, wb >>
    /\ RunFrame

\* latest_ver_num = dwb_release.get('tag_name', '').strip('v'), and the object
UpdateRelease ==
    /\ pc = "update_release"
    /\ gh.pc = "returned"
    /\ wb' = [Installation(scriptConfig["APP_VERSION"]) EXCEPT
                !.latest_ver_num = Strip(gh.result.tag_name, {"v"})]
    /\ Goto("create_service_user")
    /\ UNCHANGED << env_file, events, disk, gh >>
    /\ RunFrame

\* installed_ver_num, the test of latest_ver_num, and the comparison
UpdateCheck ==
    /\ pc = "update_check"
    /\ LET r == get_installed_dwb_version(env_file) IN
       IF r.raises THEN Exit("traceback") /\ UNCHANGED wb
       ELSE IF wb.latest_ver_num = << >> THEN Exit("1") /\ UNCHANGED wb
       ELSE /\ wb' = [wb EXCEPT !.installed_version = r.value]
            /\ Goto(IF r.value # wb.latest_ver_num THEN "backup"
                    ELSE "install_mediamtx")
    /\ UNCHANGED << env_file, events, disk, gh >>
    /\ RunFrame

\* the directories backup() archives, in order
BackupDirsAppOnly == << "install_path" >>

BackupDirs == << "install_path", "/tokens" >>

DirExists(dir) == IF dir = "install_path" THEN disk.app_dir ELSE disk.tokens

\* one iteration of the loop of backup(): the archive of one directory is
\* written and closed, then chmod 0600; tar.add of a missing directory raises
Backup ==
    /\ pc = "backup"
    /\ LET dir == BackupDirs[wb.backup_i] IN
       IF ~DirExists(dir)
       THEN Exit("traceback") /\ UNCHANGED << events, wb >>
       ELSE \E outcome \in {"ok", "raise", "chmod"} :
               CASE outcome = "ok" ->
                      /\ Log(<< "backup", dir >>)
                      /\ wb' = [wb EXCEPT !.backup_i = @ + 1]
                      /\ Goto(IF wb.backup_i = Len(BackupDirs) THEN "rmtree"
                              ELSE "backup")
                 [] outcome = "raise" ->
                      Exit("traceback") /\ UNCHANGED << events, wb >>
                 [] outcome = "chmod" ->
                      /\ Log(<< "backup", dir >>)
                      /\ Exit("1")
                      /\ UNCHANGED wb
    /\ UNCHANGED << env_file, disk, gh >>
    /\ RunFrame

\* rmtree(scriptConfig.APP_PATH)
Rmtree ==
    /\ pc = "rmtree"
    /\ IF disk.app_dir
       THEN /\ disk' = DiskAfterRmtree(disk)
            /\ env_file' = NoFile
            /\ Log(<< "rmtree" >>)
            /\ Goto("install_app")
       ELSE Exit("traceback") /\ UNCHANGED << disk, env_file, events >>
    /\ UNCHANGED << gh, wb >>
    /\ RunFrame

\* chown of APP_PATH; DWB_UPDATED = True
UpdateChown ==
    /\ pc = "update_chown"
    /\ wb' = [wb EXCEPT !.DWB_UPDATED = TRUE]
    /\ Goto("install_mediamtx")
    /\ UNCHANGED << env_file, events, disk, gh >>
    /\ RunFrame

\* the end of run_install (chown, restart under systemd) and of the update
\* branch of __main__ (restart when something was updated); the script ends
Finish ==
    /\ pc = "finish"
    /\ IF \/ inv.action = "install" /\ inv.service_manager = "systemd"
          \/ inv.action = "update" /\ (wb.DWB_UPDATED \/ wb.MEDIAMTX_UPDATED)
       THEN Log(<< "restart" >>)
       ELSE UNCHANGED events
    /\ Exit("0")
    /\ UNCHANGED << env_file, disk, gh, wb >>
    /\ RunFrame

(***************************************************************************)
(* Bounds and input sets                                                   *)
(***************************************************************************)

\* lines of an initial .env, without their terminator
MaxLines == 3
\* update_env_file calls in one behaviour
MaxCalls == 2
\* members of an archive
MaxMembers == 2
\* the largest strip_dirs tried
MaxStrip == 2

\* fields a hand-edited settings file holds
MaxFileKeys == 1
\* flags given besides --INSTALLATION_CONF
MaxFlags == 1

EnvKeys == {VERSION, MTX_TAG}
EnvValues == {<< "1" >>, << "2" >>}
EnvLineBodies ==
    { VERSION \o << "=", "1" >>, VERSION \o << "=", "2" >>,
      MTX_TAG \o << "=", "1" >>, << "#" >> }

\* the sequences of at most n elements of S
RECURSIVE SeqsUpTo(_, _)
SeqsUpTo(S, n) ==
    IF n = 0 THEN { << >> }
    ELSE LET shorter == SeqsUpTo(S, n - 1) IN
         shorter \cup { Append(q, x) : q \in shorter, x \in S }

\* a text of the given line bodies, each ended by "\n" except the last when
\* lastNewline is FALSE
RECURSIVE TextOf(_, _)
TextOf(bodies, lastNewline) ==
    IF Len(bodies) = 0 THEN << >>
    ELSE IF Len(bodies) = 1
         THEN Head(bodies) \o (IF lastNewline THEN << "\n" >> ELSE << >>)
         ELSE Head(bodies) \o << "\n" >> \o TextOf(Tail(bodies), lastNewline)

EnvFiles ==
    { TextOf(b, nl) : b \in SeqsUpTo(EnvLineBodies, MaxLines), nl \in BOOLEAN }
    \cup { NoFile }

Filters == { NoFilter, AppFilter, << "f" >> }
MemberNames ==
    { << "r", "/", "a", "p", "p", "/", "f" >>,
      << "r", "/", "a", "p", "p", "/", "w", "/", "f" >>,
      << "r", "/", "x", "/", "a", "p", "p", "/", "f" >>,
      << "r", "/", "a", "p", "p" >>,
      << "a", "p", "p", "/", "f" >>,
      << "r", "/", "f" >>,
      << "f" >> }

V10 == << "1", ".", "0" >>
V20 == << "2", ".", "0" >>
V30 == << "3", ".", "0" >>
\* a version whose tag ends with the letter v
V21DEV == << "2", ".", "1", "-", "d", "e", "v" >>
AltConf == << "/alt/install.json" >>
OtherConf == << "/other/install.json" >>
Paths == { DefaultConf, AltConf, OtherConf }
Actions == { "install", "update", "show-settings" }

\* the value a settings file holds for a field
PersistedValue(k) ==
    CASE k = "APP_VERSION" -> V10
      [] k = "APP_GUNICORN" -> True
      [] k = "APP_PORT" -> << "<8080>" >>
      [] k = "INSTALLATION_CONF" -> OtherConf
      [] OTHER -> << "persisted", k >>

\* the values a flag is given
FlagValues(k) ==
    CASE k = "APP_VERSION" -> { V20, LATEST }
      [] k = "APP_GUNICORN" -> { << "YES" >>, << "No" >>, << "maybe" >> }
      [] k = "INSTALLATION_CONF" -> { AltConf }
      [] OTHER -> { << "flag", k >> }

Extend(d, k, v) == [x \in DOMAIN d \cup {k} |-> IF x = k THEN v ELSE d[x]]

\* JSON objects of at most n fields, one of them possibly no field of _Config
RECURSIVE ObjectsUpTo(_)
ObjectsUpTo(n) ==
    IF n = 0 THEN { << >> }
    ELSE LET fewer == ObjectsUpTo(n - 1) IN
         fewer \cup { Extend(d, k, PersistedValue(k)) :
                        d \in fewer, k \in Fields \cup {"FOO"} }

\* the file write_config_file leaves: every field but INSTALLATION_CONF
WrittenObject == [k \in Fields \ {"INSTALLATION_CONF"} |-> PersistedValue(k)]

DefaultFiles ==
    { Absent, Malformed, Json(WrittenObject) }
    \cup { Json(d) : d \in ObjectsUpTo(MaxFileKeys) }
AltFiles ==
    { Absent, Json([k \in {"APP_VERSION", "APP_PATH"} |->
                      IF k = "APP_VERSION" THEN V30 ELSE << "alt", k >>]) }

NoFlags == [k \in Fields |-> None]

\* the parsed command lines with at most n flags besides --INSTALLATION_CONF
RECURSIVE ArgsUpTo(_)
ArgsUpTo(n) ==
    IF n = 0 THEN { NoFlags }
    ELSE LET fewer == ArgsUpTo(n - 1) IN
         fewer \cup UNION { { [a EXCEPT ![k] = v] :
                                a \in fewer, v \in FlagValues(k) } :
                              k \in Fields \ {"INSTALLATION_CONF"} }

ArgsSets ==
    { [a EXCEPT !["INSTALLATION_CONF"] = c] :
        a \in ArgsUpTo(MaxFlags), c \in FlagValues("INSTALLATION_CONF") \cup {None} }

\* releases of a repository
MaxReleases == 3

Releases ==
    { [name |-> << "v" >> \o V10, tag_name |-> << "v" >> \o V10,
       assets |-> << << "m", "_" >> \o LINUX_AMD64 >>, env |-> NoFile],
      [name |-> << "R" >>, tag_name |-> V20,
       assets |-> << << "m", "_", "a", "r", "m" >>, LINUX_AMD64 \o << "_", "m" >> >>,
       env |-> NoFile],
      [name |-> V30, tag_name |-> << "b" >>,
       assets |-> << << "m", "_", "a", "r", "m" >> >>, env |-> NoFile] }

\* the release lists without a repeated release
ReleaseLists ==
    { l \in SeqsUpTo(Releases, MaxReleases) :
        \A i, j \in 1..Len(l) : l[i] = l[j] => i = j }

Rels == { "prev", "next", "last", "first" }
LinkOrders ==
    { o \in [1..4 -> Rels] : \A i, j \in 1..4 : o[i] = o[j] => i = j }

Tokens == { LATEST, V10, V20, V30, << "9" >> }

\* the order in which the hosting API lists the entries of a link header
ApiLinkOrder == << "prev", "next", "last", "first" >>
EmptyRepo == [releases |-> << >>, link_order |-> ApiLinkOrder]
Repos == { "docker-wyze-bridge", "mediamtx" }

\* the inputs of a whole run: the flags, the settings file, the two
\* repositories and the disk the invocation finds
RunArgs == { [NoFlags EXCEPT !["APP_VERSION"] = v] : v \in { None, V10, V20 } }
RunSettings == { Absent, Json([k \in {"APP_VERSION"} |-> V10]) }

\* a release of docker-wyze-bridge; withEnv: its archive holds app/.env
AppRelease(version, withEnv) ==
    [name |-> << "v" >> \o version, tag_name |-> << "v" >> \o version,
     assets |-> << >>,
     env |-> IF withEnv THEN VERSION \o << "=" >> \o version \o << "\n" >>
             ELSE NoFile]

AppRepos ==
    { [releases |-> l, link_order |-> ApiLinkOrder] :
        l \in UNION { { << AppRelease(V20, e), AppRelease(V10, e) >>,
                        << AppRelease(V10, e), AppRelease(V20, e) >>,
                        << AppRelease(V30, e), AppRelease(V20, e),
                           AppRelease(V10, e) >>,
                        << AppRelease(V21DEV, e), AppRelease(V20, e) >>,
                        << AppRelease(V20, e) >> } : e \in BOOLEAN } }

MtxRelease(version) ==
    [name |-> << "v" >> \o version, tag_name |-> << "v" >> \o version,
     assets |-> << << "m", "_" >> \o LINUX_AMD64 >>, env |-> NoFile]

MtxRepo ==
    [releases |-> << MtxRelease(V20), MtxRelease(V10) >>,
     link_order |-> ApiLinkOrder]

\* the disk an earlier install left, with the version its .env records
InstalledDisk(app_conf) ==
    [app_dir |-> TRUE, frontend |-> TRUE, requirements |-> TRUE,
     mtx_server |-> "patched", tokens |-> TRUE, app_conf |-> app_conf,
     user |-> TRUE, mediamtx |-> << "v" >> \o V20]

InstalledEnvs ==
    { VERSION \o << "=" >> \o V10 \o << "\n" >>,
      VERSION \o << "=" >> \o V20 \o << "\n" >>,
      << "#", "\n" >> }

RunDisks ==
    { [disk |-> FreshDisk, env_file |-> NoFile] }
    \cup { [disk |-> InstalledDisk(c), env_file |-> e] :
             c \in {"template", "operator"}, e \in InstalledEnvs }
    \cup { [disk |-> [InstalledDisk("operator") EXCEPT !.tokens = FALSE],
            env_file |-> VERSION \o << "=" >> \o V10 \o << "\n" >>] }

(***************************************************************************)
(* The environment-file upsert on its own                                  *)
(***************************************************************************)

MainIdle ==
    /\ pc = "idle"
    /\ inv = [action |-> "none", args |-> NoFlags, root |-> TRUE,
              service_manager |-> "unset"]
    /\ scriptConfig = << >>
    /\ settings = [p \in Paths |-> Absent]
    /\ events = << >>

GithubIdle ==
    /\ repo = [n \in Repos |-> EmptyRepo]
    /\ gh = GhIdle

RunIdle ==
    /\ disk = FreshDisk
    /\ start = [disk |-> FreshDisk, env_file |-> NoFile]
    /\ wb = NoInstallation

mainVars == << pc, inv, scriptConfig, settings, events, repo, gh, disk,
              start, wb >>

TarIdle ==
    /\ tar = [members |-> << >>, file_name_contains |-> NoFilter,
              strip_dirs |-> 0, i |-> 1]
    /\ extracted = << >>

EnvInit ==
    /\ exit = "running"
    /\ env_file \in EnvFiles
    /\ calls = << >>
    /\ TarIdle
    /\ MainIdle
    /\ GithubIdle
    /\ RunIdle

\* one call of update_env_file(key, value)
UpsertCall ==
    \E key \in EnvKeys, value \in EnvValues :
        LET r == update_env_file(env_file, key, value) IN
        /\ exit = "running"
        /\ Len(calls) < MaxCalls
        /\ env_file' = r.file
        /\ exit' = r.exit
        /\ calls' = Append(calls, [key |-> key, value |-> value,
                                   before |-> env_file, after |-> r.file])
        /\ UNCHANGED << tar, extracted >>
        /\ UNCHANGED mainVars

(***************************************************************************)
(* The extraction loop on its own                                          *)
(***************************************************************************)

TarInit ==
    /\ exit = "running"
    /\ env_file = NoFile
    /\ calls = << >>
    /\ \E m \in SeqsUpTo(MemberNames, MaxMembers), f \in Filters,
          n \in 0..MaxStrip :
          tar = [members |-> m, file_name_contains |-> f, strip_dirs |-> n,
                 i |-> 1]
    /\ extracted = << >>
    /\ MainIdle
    /\ GithubIdle
    /\ RunIdle

\* one iteration of `for member in tar.getmembers()`
ExtractMember ==
    /\ exit = "running"
    /\ tar.i <= Len(tar.members)
    /\ LET n == MemberName(tar.members[tar.i], tar.file_name_contains,
                           tar.strip_dirs)
       IN extracted' = IF n = Skipped THEN extracted
                       ELSE Append(extracted,
                                   [orig |-> tar.members[tar.i], name |-> n])
    /\ tar' = [tar EXCEPT !.i = tar.i + 1]
    /\ UNCHANGED << exit, env_file, calls >>
    /\ UNCHANGED mainVars

vars == << exit, env_file, calls, tar, extracted, pc, inv, scriptConfig,
          settings, events, repo, gh, disk, start, wb >>

EnvNext == UpsertCall
SpecEnv == EnvInit /\ [][EnvNext]_vars

TarNext == ExtractMember
SpecTar == TarInit /\ [][TarNext]_vars

(***************************************************************************)
(* __main__ up to the dispatch: the configuration and the prerequisites    *)
(***************************************************************************)

ConfigSpecInit ==
    /\ exit = "running"
    /\ env_file = NoFile
    /\ calls = << >>
    /\ TarIdle
    /\ pc = "is_root"
    /\ \E a \in Actions, g \in ArgsSets, r \in BOOLEAN :
          inv = [action |-> a, args |-> g, root |-> r,
                 service_manager |-> "unset"]
    /\ scriptConfig = << >>
    /\ \E d \in DefaultFiles, f \in AltFiles :
          settings = [p \in Paths |->
                        IF p = DefaultConf THEN d
                        ELSE IF p = AltConf THEN f ELSE Absent]
    /\ events = << >>
    /\ GithubIdle
    /\ RunIdle

MainNext ==
    \/ IsRoot
    \/ PythonVersion
    \/ ConfigInit
    \/ ParseArguments
    \/ ShowSettings
    \/ WriteConfigFile
    \/ DetectServiceManager
    \/ InternetAccess

SpecConfig == ConfigSpecInit /\ [][MainNext]_vars

\* the value the settings files give a field: the file named by
\* --INSTALLATION_CONF first, then the file at the default path, then the
\* built-in default
PersistedOrDefault(f) ==
    LET named == IF inv.args["INSTALLATION_CONF"] # None
                 THEN FileAt(settings, inv.args["INSTALLATION_CONF"])
                 ELSE Absent
        first == FileAt(settings, DefaultConf)
    IN IF named.kind = "json" /\ f \in DOMAIN named.data THEN named.data[f]
       ELSE IF first.kind = "json" /\ f \in DOMAIN first.data THEN first.data[f]
       ELSE Defaults[f]

\* the flag's value as parse_arguments stores it
FlagAsStored(f) ==
    IF f = "APP_GUNICORN" THEN str2bool(inv.args[f]) ELSE inv.args[f]

C10_ShowSettingsExitsZero ==
    (inv.action = "show-settings" /\ pc = "exited")
    => (exit = "0" /\ events = << >>)

(***************************************************************************)
(* One call of get_release on its own                                      *)
(***************************************************************************)

ResolverInit ==
    /\ exit = "running"
    /\ env_file = NoFile
    /\ calls = << >>
    /\ TarIdle
    /\ MainIdle
    /\ RunIdle
    /\ \E l \in ReleaseLists, o \in LinkOrders :
          repo = [n \in Repos |-> [releases |-> l, link_order |-> o]]
    /\ \E n \in Repos, version \in Tokens, asset_pattern \in {None, LINUX_AMD64} :
          gh = GhCall(n, version, asset_pattern)

ResolverNext ==
    \/ FetchReleaseUrl
    \/ WhileNext
    \/ GetRelease

SpecResolver == ResolverInit /\ [][ResolverNext]_vars

\* the releases of the list that match the requested token
Matching == { i \in 1..Len(repo[gh.repo_name].releases) :
                ReleaseMatches(repo[gh.repo_name].releases[i], gh.version) }

\* C1: for a token other than "latest", when some release on any page (the
\* last or only page included) matches it, fetch_release_url does not give up
\* with "Unable to locate release", the URL it returns is that of a matching
\* release, and get_release returns that release's tag.
C1_MatchingReleaseFound ==
    (gh.pc # "idle" /\ gh.version # LATEST /\ Matching # {})
    => /\ gh.error # "not_found"
       /\ gh.pc \in {"get_release", "returned"} => gh.release_url \in Matching
       /\ (gh.pc = "returned" /\ gh.asset_pattern = None)
          => gh.result.tag_name
                = repo[gh.repo_name].releases[gh.release_url].tag_name

\* C2: for a token other than "latest" that matches no release, the
\* pagination loop requests each page of the list at most once.
C2_EachPageAtMostOnce ==
    (gh.pc # "idle" /\ gh.version # LATEST /\ Matching = {})
    => \A p \in DOMAIN gh.visits : gh.visits[p] <= 1

(***************************************************************************)
(* A whole invocation: __main__, run_install, run_update                   *)
(***************************************************************************)

RunInit ==
    /\ exit = "running"
    /\ calls = << >>
    /\ TarIdle
    /\ pc = "is_root"
    /\ \E a \in Actions, g \in RunArgs, r \in BOOLEAN :
          inv = [action |-> a, args |-> g, root |-> r,
                 service_manager |-> "unset"]
    /\ scriptConfig = << >>
    /\ \E d \in RunSettings :
          settings = [p \in Paths |-> IF p = DefaultConf THEN d ELSE Absent]
    /\ events = << >>
    /\ \E app \in AppRepos :
          repo = [n \in Repos |->
                    IF n = "docker-wyze-bridge" THEN app ELSE MtxRepo]
    /\ gh = GhIdle
    /\ start \in RunDisks
    /\ disk = start.disk
    /\ env_file = start.env_file
    /\ wb = NoInstallation

RunNext ==
    \/ MainNext
    \/ ResolverNext
    \/ RunInstall
    \/ InstallLatest
    \/ InstallCheck
    \/ CreateServiceUser
    \/ CreateApplicationFolders
    \/ InstallApp
    \/ InstallAppRelease
    \/ InstallAppDownload
    \/ InstallAppExtract
    \/ InstallAppVersion
    \/ CreatePyvenv
    \/ InstallPythonRequirements
    \/ InstallIotcLibrary
    \/ CreateSettingsFile
    \/ InstallMediamtx
    \/ InstallMediamtxRelease
    \/ MediamtxDownload
    \/ MediamtxEnv
    \/ PatchMediamtxPath
    \/ InstallFfmpeg
    \/ InstallGunicorn
    \/ InstallService
    \/ RunUpdate
    \/ UpdateRelease
    \/ UpdateCheck
    \/ Backup
    \/ Rmtree
    \/ UpdateChown
    \/ Finish

SpecRun == RunInit /\ [][RunNext]_vars

\* the position of the first occurrence of an event in this run, 0 when it
\* has not happened
RECURSIVE PosFrom(_, _)
PosFrom(event, i) ==
    IF i > Len(events) THEN 0
    ELSE IF events[i] = event THEN i
    ELSE PosFrom(event, i + 1)

Pos(event) == PosFrom(event, 1)

Happened(event) == Pos(event) # 0

\* the version the .env recorded when the run began
InstalledAtStart == get_installed_dwb_version(start.env_file).value

\* the version the requested target resolved to in this run, None so far
ResolvedTarget ==
    IF inv.action = "update" THEN wb.latest_ver_num
    ELSE IF wb.version = LATEST /\ wb.latest_version_number # << >>
         THEN wb.latest_version_number
    ELSE wb.version_tag

\* C3: under install and under update, for "latest" and for an explicit
\* version, when the version the .env records equals the resolved target the
\* run extracts nothing, backs nothing up and does not delete the install
\* directory.
C3_NoChangeWhenUpToDate ==
    (/\ inv.action \in {"install", "update"}
     /\ InstalledAtStart # None
     /\ InstalledAtStart = ResolvedTarget)
    => /\ ~Happened(<< "extract" >>)
       /\ ~Happened(<< "extract_failed" >>)
       /\ ~Happened(<< "backup", "install_path" >>)
       /\ ~Happened(<< "backup", "/tokens" >>)
       /\ ~Happened(<< "rmtree" >>)

\* C4: in an update run the install directory is removed only after both
\* backup archives (install directory and /tokens) were completely written,
\* the application is extracted only after the removal, and a run that
\* completes with an installed version different from the target has done
\* all of them in that order.
C4_BackupRemoveExtract ==
    inv.action = "update" =>
        /\ Happened(<< "rmtree" >>) =>
              /\ Happened(<< "backup", "install_path" >>)
              /\ Happened(<< "backup", "/tokens" >>)
              /\ Pos(<< "backup", "install_path" >>) < Pos(<< "rmtree" >>)
              /\ Pos(<< "backup", "/tokens" >>) < Pos(<< "rmtree" >>)
        /\ (Happened(<< "extract" >>) \/ Happened(<< "extract_failed" >>)) =>
              /\ Happened(<< "rmtree" >>)
              /\ Happened(<< "extract" >>) =>
                    Pos(<< "rmtree" >>) < Pos(<< "extract" >>)
              /\ Happened(<< "extract_failed" >>) =>
                    Pos(<< "rmtree" >>) < Pos(<< "extract_failed" >>)
        /\ (exit = "0" /\ wb.installed_version # wb.latest_ver_num) =>
              /\ Happened(<< "rmtree" >>)
              /\ Happened(<< "extract" >>)

\* an update run over a stale installation ran to its end
C4_Witness ==
    /\ inv.action = "update"
    /\ exit = "0"
    /\ start.disk.frontend
    /\ wb.installed_version # wb.latest_ver_num
    /\ Pos(<< "backup", "install_path" >>) < Pos(<< "backup", "/tokens" >>)
    /\ Pos(<< "backup", "/tokens" >>) < Pos(<< "rmtree" >>)
    /\ Pos(<< "rmtree" >>) < Pos(<< "extract" >>)

\* C9: once APP_CONF exists, an invocation leaves its content as it was.
C9_AppConfUntouched ==
    start.disk.app_conf # "absent" => disk.app_conf = start.disk.app_conf

(***************************************************************************)
(* Properties of the environment-file upsert                               *)
(***************************************************************************)

\* the number of lines of a text that start with "key="
KeyLines(text, key) ==
    IF text = NoFile THEN 0
    ELSE LET lines == ReadLines(text) IN
         Cardinality({ i \in 1..Len(lines) : StartsWith(lines[i], key \o << "=" >>) })

\* C5: update_env_file is idempotent for every initial file: when two calls
\* in a row upsert the same key and value, the file after the second call has
\* exactly one line for the key and is byte-identical to the file after the
\* first call.
C5_UpsertIdempotent ==
    \A i \in 1..(Len(calls) - 1) :
        (/\ calls[i].key = calls[i + 1].key
         /\ calls[i].value = calls[i + 1].value
         /\ calls[i + 1].after # NoFile)
        => /\ calls[i + 1].after = calls[i].after
           /\ KeyLines(calls[i + 1].after, calls[i].key) = 1

\* C6: after update_env_file(key, value) returns, the file holds at most one
\* line starting with "key=", whatever the initial content and whatever
\* upserts came before.
C6_AtMostOneLinePerKey ==
    \A i \in 1..Len(calls) :
        calls[i].after # NoFile => KeyLines(calls[i].after, calls[i].key) <= 1

(***************************************************************************)
(* Properties of the extraction                                            *)
(***************************************************************************)

\* s with its first n "/"-delimited segments removed
RECURSIVE JoinSegments(_)
JoinSegments(segs) ==
    IF Len(segs) = 0 THEN << >>
    ELSE IF Len(segs) = 1 THEN Head(segs)
    ELSE Head(segs) \o << "/" >> \o JoinSegments(Tail(segs))

WithoutFirstSegments(s, n) ==
    LET segs == Split(s, "/", -1) IN
    JoinSegments(SubSeq(segs, n + 1, Len(segs)))

\* C7: with a name filter F and strip_dirs = N > 0, a member is extracted only
\* if its original path contains F, and it is extracted under its original
\* path with exactly its first N segments removed.
C7_FilterAndStrip ==
    (tar.file_name_contains # NoFilter /\ tar.strip_dirs > 0)
    => \A i \in 1..Len(extracted) :
          /\ Contains(extracted[i].orig, tar.file_name_contains)
          /\ extracted[i].name
                = WithoutFirstSegments(extracted[i].orig, tar.strip_dirs)

(***************************************************************************)
(* Properties of the error handling                                        *)
(***************************************************************************)

\* C11: when the settings file at the default path exists but is not JSON,
\* _Config() returns normally with every field at its default and the
\* invocation goes on to parse_arguments.
C11_MalformedFileKeepsDefaults ==
    [][(pc = "config" /\ FileAt(settings, DefaultConf).kind = "malformed")
          => /\ pc' = "parse_arguments"
             /\ exit' = "running"
             /\ scriptConfig' = Defaults]_vars

\* C12: in an install or update run, when a shell command run through
\* _exec_command returns a non-zero status (here the useradd of
\* create_service_user), the process terminates with a non-zero exit status
\* and no later step of the workflow is executed.
C12_FailedCommandEndsRun ==
    (/\ inv.action \in {"install", "update"}
     /\ Happened(<< "command_failed", "useradd" >>))
    => /\ pc = "exited"
       /\ exit \in {"1", "2"}
       /\ Pos(<< "command_failed", "useradd" >>) = Len(events)

(***************************************************************************)
(* Properties of the version reconciliation                                *)
(***************************************************************************)

\* C13: in an install run with an explicit APP_VERSION over an installation
\* whose recorded version differs from the requested one, the application is
\* not extracted over the install directory and the recorded VERSION stays
\* what it was.
C13_ConflictNotResolved ==
    (/\ inv.action = "install"
     /\ wb.installed
     /\ wb.version # LATEST
     /\ InstalledAtStart # None
     /\ InstalledAtStart # wb.version)
    => /\ ~Happened(<< "extract" >>)
       /\ get_installed_dwb_version(env_file).value = InstalledAtStart

\* C14: when frontend.py is present but the .env has no VERSION line, neither
\* an install run nor an update run extracts into the install directory or
\* deletes it.
C14_UnknownVersionNotOverwritten ==
    (/\ inv.action \in {"install", "update"}
     /\ start.disk.frontend
     /\ start.env_file # NoFile
     /\ ~get_installed_dwb_version(start.env_file).raises
     /\ InstalledAtStart = None)
    => /\ ~Happened(<< "extract" >>)
       /\ ~Happened(<< "rmtree" >>)

\* the application is not installed when the run begins: no frontend.py and
\* no install directory
NotInstalledAtStart == ~start.disk.frontend /\ ~start.disk.app_dir

\* C15: when the application is not installed at the start and the release
\* lookup succeeded, an install or update run does not end in an uncaught
\* exception of a step that presupposes the install directory: a run that
\* ended that way has extracted the application.
C15_NotInstalledAlwaysInstalls ==
    (/\ inv.action \in {"install", "update"}
     /\ NotInstalledAtStart
     /\ ResolvedTarget \notin {None, << >>}
     /\ pc = "exited"
     /\ exit = "traceback")
    => Happened(<< "extract" >>)

(***************************************************************************)
(* Properties of install_mediamtx and patch_mediamtx_path                  *)
(***************************************************************************)

\* install_mediamtx found the local version equal to the resolved tag
MediamtxUpToDate ==
    /\ pc = "mediamtx_env"
    /\ ~wb.MEDIAMTX_UPDATED
    /\ current_mtx_version = wb.latest_mtx_tag

\* C16: when the locally reported mediamtx version equals the resolved
\* target tag, install_mediamtx changes nothing on the filesystem: neither
\* the mediamtx directory nor the application's .env.
C16_EqualVersionsNoChange ==
    [][MediamtxUpToDate => (disk' = disk /\ env_file' = env_file)]_vars

\* C17: after an update run has installed the release with tag T, the
\* version the .env records is the version a following update run that
\* resolves to T compares it with, so that run finds the application up to
\* date.
C17_UpdateIdempotent ==
    (/\ inv.action = "update"
     /\ Happened(<< "extract" >>)
     /\ exit = "0")
    => get_installed_dwb_version(env_file).value = wb.latest_ver_num

\* C18: a run that extracted a fresh copy of the application and completed
\* leaves wyzebridge/mtx_server.py with the patched mediamtx path, also when
\* mediamtx itself was already up to date.
C18_ExtractedCopyIsPatched ==
    (/\ inv.action \in {"install", "update"}
     /\ Happened(<< "extract" >>)
     /\ exit = "0")
    => disk.mtx_server = "patched"

=============================================================================
